---- MODULE Spec2Model ----
(***************************************************************************)
(* Session/token lifecycle of the nest-scaffold backend: JWT issuance      *)
(* (AuthService.login), revocation (AuthService.logout writing the         *)
(* TokenBlacklist table), the request-time validator (JwtStrategy) and     *)
(* the logout route of AuthController.                                     *)
(*                                                                         *)
(* Time is the wall clock in milliseconds (Date.now()).  Every handler is  *)
(* split at its await points: the code between two awaits is one action,   *)
(* and a database call is one atomic step of the database.                 *)
(***************************************************************************)
EXTENDS Integers, Sequences, FiniteSets, TLC

\* ---------------------------------------------------------------- bounds
NumUsers == 1        \* user ids 1..NumUsers
TickMs == 500        \* granularity of the clock
MaxNow == 1000       \* the clock stops here
ExpiresInSec == 1    \* configured token lifetime jwt.expiresIn, in seconds
MaxRecords == 2      \* rows the TokenBlacklist table can hold in the model
NumNames == 2        \* distinct emails, and distinct usernames, clients can send
MaxUserRows == 2     \* rows of the User table up to which register calls start
MaxClockStepMs == 1  \* milliseconds that can pass between two statements
NumAccounts == 2     \* accounts that sign in and read their profile
MaxSkip == 4         \* largest skip a paginated query is sent with
MaxTake == 3         \* largest take a paginated query is sent with
MaxTotal == 5        \* rows the paginated model can hold
CacheTtlMs == 500    \* cache.ttl, milliseconds a cached response is served

MsPerSec == 1000

Users == 1..NumUsers
\* The slots of calls in flight: two callers, each with at most one call at a time
Reqs == {"r1", "r2"}

\* ---------------------------------------------------------------- values
\* Emails (IsEmail) and usernames (IsAlphanumeric) are disjoint sets of strings
Email(n) == <<"email", n>>
Username(n) == <<"username", n>>
Password(n) == <<"password", n>>
Null == <<"null", 0>>              \* null / undefined

Emails == {Email(n) : n \in 1..NumNames}
Usernames == {Username(n) : n \in 1..NumNames}
Passwords == {Password(1), Password(2)}

\* ---------------------------------------------------------------- tokens
\* A token string, represented by what it encodes.  Tokens signed by this
\* server are determined by their claims: HS256 signing is deterministic and
\* login adds no nonce (no jti), so the same user signed in the same second
\* yields the same string.
Token(kind, sub, username, iat, exp) ==
  [kind |-> kind, sub |-> sub, username |-> username, iat |-> iat, exp |-> exp]

Garbage == Token("garbage", 0, Null, 0, 0)        \* not a JWS at all
TextPayload == Token("text", 0, Null, 0, 0)       \* JWS whose payload is not JSON
\* object payload without exp, not signed by the server
NoExp == Token("noexp", 1, Username(1), 0, 0)
\* object payload with exp, not signed by the server
Forged == Token("forged", 1, Username(1), 0, 1)
ForeignTokens == {Garbage, TextPayload, NoExp, Forged}

NoCookie == Token("undefined", 0, Null, 0, 0)     \* req.cookies?.Authentication is undefined
EmptyCookie == Token("empty", 0, Null, 0, 0)      \* Authentication= (the empty string)

\* !token in JavaScript: undefined and "" are falsy
Falsy(token) == token.kind \in {"undefined", "empty"}

\* A JavaScript Date: new Date(NaN) is the invalid date
DateOf(ms) == [valid |-> TRUE, ms |-> ms]
InvalidDate == [valid |-> FALSE, ms |-> 0]

NowSec(t) == t \div MsPerSec

\* jwtService.sign(payload) for payload { email, username, sub, verified }:
\* iat = floor(Date.now()/1000), exp = iat + expiresIn
Sign(sub, username, t) ==
  Token("jwt", sub, username, NowSec(t), NowSec(t) + ExpiresInSec)

\* jwtService.decode(token): the payload without any verification; null for a
\* string that is no JWS, a string for a payload that is no JSON
Decode(token) ==
  CASE token.kind = "jwt" ->
         [type |-> "object", hasExp |-> TRUE, exp |-> token.exp, sub |-> token.sub,
          username |-> token.username]
    [] token.kind = "forged" ->
         [type |-> "object", hasExp |-> TRUE, exp |-> token.exp, sub |-> token.sub,
          username |-> token.username]
    [] token.kind = "noexp" ->
         [type |-> "object", hasExp |-> FALSE, exp |-> 0, sub |-> token.sub,
          username |-> token.username]
    [] token.kind = "text" ->
         [type |-> "string", hasExp |-> FALSE, exp |-> 0, sub |-> 0, username |-> Null]
    [] OTHER -> [type |-> "null", hasExp |-> FALSE, exp |-> 0, sub |-> 0, username |-> Null]

\* Mutant of IgnoreExpiration: the strategy is configured to ignore expiry
IgnoreExpirationOn == TRUE

\* The strategy's options: ignoreExpiration: false
IgnoreExpiration == FALSE

\* The strategy's verification (secretOrKey, ignoreExpiration): the signature
\* is the server's and, unless expiry is ignored, the clock has not reached exp
VerifyToken(token, t) ==
  /\ token.kind = "jwt"
  /\ (IgnoreExpiration \/ NowSec(t) < token.exp)

\* jwtFromRequest: the cookie extractor
JwtFromRequest(cookie) == cookie

\* ---------------------------------------------------------------- cookies
\* A string is the sequence of its characters; a JavaScript number is an
\* integer or NaN.
Num(n) == [nan |-> FALSE, n |-> n]
NaN == [nan |-> TRUE, n |-> 0]

Undefined == <<"undefined">>       \* a configuration key that is not set

Digits == {"0", "1", "2", "3", "4", "5", "6", "7", "8", "9"}

DigitVal(ch) ==
  CASE ch = "0" -> 0 [] ch = "1" -> 1 [] ch = "2" -> 2 [] ch = "3" -> 3
    [] ch = "4" -> 4 [] ch = "5" -> 5 [] ch = "6" -> 6 [] ch = "7" -> 7
    [] ch = "8" -> 8 [] ch = "9" -> 9

\* The longest prefix of str made of digits
RECURSIVE LeadingDigits(_)
LeadingDigits(str) ==
  IF str # <<>> /\ Head(str) \in Digits
  THEN <<Head(str)>> \o LeadingDigits(Tail(str))
  ELSE <<>>

RECURSIVE DigitsValue(_)
DigitsValue(ds) ==
  IF ds = <<>> THEN 0
  ELSE DigitsValue(SubSeq(ds, 1, Len(ds) - 1)) * 10 + DigitVal(ds[Len(ds)])

\* parseInt(str, 10): leading blanks are skipped, a sign is read, then the
\* digits up to the first other character; NaN when there is no digit
RECURSIVE ParseInt(_)
ParseInt(str) ==
  IF str # <<>> /\ Head(str) = " " THEN ParseInt(Tail(str))
  ELSE LET negative == str # <<>> /\ Head(str) = "-"
           rest == IF str # <<>> /\ Head(str) \in {"-", "+"} THEN Tail(str) ELSE str
           ds == LeadingDigits(rest)
       IN IF ds = <<>> THEN NaN
          ELSE IF negative THEN Num(0 - DigitsValue(ds))
          ELSE Num(DigitsValue(ds))

\* The milliseconds of a unit of the ms package (the short forms up to the
\* week); 0 for a word that is no unit
MsUnitOf(unit) ==
  CASE unit \in {<<>>, <<"m", "s">>} -> 1
    [] unit = <<"s">> -> 1000
    [] unit = <<"m">> -> 60000
    [] unit = <<"h">> -> 3600000
    [] unit = <<"d">> -> 86400000
    [] unit = <<"w">> -> 604800000
    [] OTHER -> 0

\* ms(str) of the ms package, by which the signer reads a string expiresIn: an
\* optional sign, a decimal number, an optional unit (none is milliseconds);
\* the value is num / den milliseconds, undefined for any other string
Ms(str) ==
  LET negative == str # <<>> /\ Head(str) = "-"
      body == IF negative THEN Tail(str) ELSE str
      int == LeadingDigits(body)
      afterInt == SubSeq(body, Len(int) + 1, Len(body))
      hasDot == afterInt # <<>> /\ Head(afterInt) = "."
      frac == IF hasDot THEN LeadingDigits(Tail(afterInt)) ELSE <<>>
      unit == SubSeq(afterInt, (IF hasDot THEN 1 ELSE 0) + Len(frac) + 1, Len(afterInt))
      wellFormed == IF hasDot THEN frac # <<>> ELSE int # <<>>
      den == 10 ^ Len(frac)
      magnitude == (DigitsValue(int) * den + DigitsValue(frac)) * MsUnitOf(unit)
  IN IF ~wellFormed \/ MsUnitOf(unit) = 0
     THEN [defined |-> FALSE, num |-> 0, den |-> 1]
     ELSE [defined |-> TRUE, num |-> IF negative THEN 0 - magnitude ELSE magnitude,
           den |-> den]

\* The lifetime exp - iat the signer gives for a string expiresIn:
\* exp = Math.floor(iat + ms(str) / 1000); the signer throws when ms(str) is
\* undefined
JwtLifetime(str) ==
  LET m == Ms(str)
  IN IF ~m.defined THEN [defined |-> FALSE, seconds |-> 0]
     ELSE [defined |-> TRUE, seconds |-> m.num \div (m.den * 1000)]

\* durationStr.endsWith(ch)
EndsWith(str, ch) == str # <<>> /\ str[Len(str)] = ch

\* durationStr.slice(0, -1)
SliceOffLast(str) == SubSeq(str, 1, Len(str) - 1)

\* The date t moved by n units of unitMs milliseconds (setDate / setHours /
\* setMinutes / setSeconds with the field plus n, on a server whose zone has
\* no daylight saving); a NaN field makes the date invalid
Shifted(t, n, unitMs) ==
  IF n.nan THEN InvalidDate ELSE DateOf(t + n.n * unitMs)

\* Mutant of CalculateExpirationDate: an unrecognized format adds nothing
CalculateExpirationDateNoDefault(durationStr, t) ==
  IF EndsWith(durationStr, "d")
  THEN Shifted(t, ParseInt(SliceOffLast(durationStr)), 86400000)
  ELSE IF EndsWith(durationStr, "h")
  THEN Shifted(t, ParseInt(SliceOffLast(durationStr)), 3600000)
  ELSE IF EndsWith(durationStr, "m")
  THEN Shifted(t, ParseInt(SliceOffLast(durationStr)), 60000)
  ELSE IF EndsWith(durationStr, "s")
  THEN Shifted(t, ParseInt(SliceOffLast(durationStr)), 1000)
  ELSE DateOf(t)

\* calculateExpirationDate(durationStr) called at time t (new Date())
CalculateExpirationDate(durationStr, t) ==
  IF EndsWith(durationStr, "d")
  THEN Shifted(t, ParseInt(SliceOffLast(durationStr)), 86400000)
  ELSE IF EndsWith(durationStr, "h")
  THEN Shifted(t, ParseInt(SliceOffLast(durationStr)), 3600000)
  ELSE IF EndsWith(durationStr, "m")
  THEN Shifted(t, ParseInt(SliceOffLast(durationStr)), 60000)
  ELSE IF EndsWith(durationStr, "s")
  THEN Shifted(t, ParseInt(SliceOffLast(durationStr)), 1000)
  ELSE Shifted(t, Num(1), 86400000)

\* A cookie string is the sequence of its parts between "; "
\* getCommonCookieAttributes(): Domain only for a truthy app.cookieDomain
GetCommonCookieAttributes(cfg) ==
  LET domainPart == IF cfg.cookieDomain \in {Undefined, <<>>} THEN <<>>
                    ELSE <<<<"Domain", cfg.cookieDomain>>>>
  IN <<<<"HttpOnly">>, <<"Path", "/">>>> \o domainPart
       \o <<<<"SameSite", "Strict">>, <<"Secure">>>>

\* configService.get('jwt.expiresIn', '1d')
ExpiresInOf(cfg) == IF cfg.expiresIn = Undefined THEN <<"1", "d">> ELSE cfg.expiresIn

\* Math.floor((expires.getTime() - now) / 1000)
MaxAgeOf(expires, t) ==
  IF ~expires.valid THEN NaN ELSE Num((expires.ms - t) \div 1000)

\* getTokenCookie(token): the expiry is computed from the clock at t1, the
\* difference to Date.now() is taken at t2
GetTokenCookie(token, cfg, t1, t2) ==
  <<<<"Authentication", token>>>> \o GetCommonCookieAttributes(cfg)
    \o <<<<"Max-Age", MaxAgeOf(CalculateExpirationDate(ExpiresInOf(cfg), t1), t2)>>>>

\* Mutant of GetClearAuthCookie: the attributes are written out, without Domain
GetClearAuthCookieLiteral(cfg) ==
  <<<<"Authentication", EmptyCookie>>, <<"HttpOnly">>, <<"Path", "/">>,
    <<"SameSite", "Strict">>, <<"Secure">>, <<"Max-Age", Num(0)>>>>

\* getClearAuthCookie()
GetClearAuthCookie(cfg) ==
  <<<<"Authentication", EmptyCookie>>>> \o GetCommonCookieAttributes(cfg)
    \o <<<<"Max-Age", Num(0)>>>>

\* ---------------------------------------------------------------- storage
\* The TokenBlacklist table: a sequence of rows in insertion order; a row's id
\* (autoincrement) is its position.
Row(token, expiresAt, createdAt) ==
  [token |-> token, expiresAt |-> expiresAt, createdAt |-> createdAt]

RowsOf(table, token) == {i \in 1..Len(table) : table[i].token = token}

\* Mutant of FindFirst: only the newest row is compared
FindFirstNewestOnly(table, token) ==
  Len(table) > 0 /\ table[Len(table)].token = token

\* prisma.tokenBlacklist.findFirst({ where: { token } }): is there a row
FindFirst(table, token) == RowsOf(table, token) # {}

\* Mutant of UniqueViolation: the column has no unique index
NoUniqueIndex(table, token) == FALSE

\* token String @unique
UniqueViolation(table, token) == RowsOf(table, token) # {}

\* Mutant of Create: a storage failure is swallowed and reported as success
CreateLossy(table, token, expiresAt, t, dbOk) ==
  IF ~expiresAt.valid THEN [error |-> "PrismaValidationError", table |-> table]
  ELSE IF ~dbOk THEN [error |-> "none", table |-> table]
  ELSE IF RowsOf(table, token) # {} THEN [error |-> "P2002", table |-> table]
  ELSE [error |-> "none",
        table |-> Append(table, [token |-> token, expiresAt |-> expiresAt, createdAt |-> t])]

\* Mutant of Create: a second insert of a token is an idempotent no-op
CreateIdempotent(table, token, expiresAt, t, dbOk) ==
  IF ~expiresAt.valid THEN [error |-> "PrismaValidationError", table |-> table]
  ELSE IF ~dbOk THEN [error |-> "StorageError", table |-> table]
  ELSE IF RowsOf(table, token) # {} THEN [error |-> "none", table |-> table]
  ELSE [error |-> "none",
        table |-> Append(table, [token |-> token, expiresAt |-> expiresAt, createdAt |-> t])]

\* prisma.tokenBlacklist.create({ data: { token, expiresAt } }) at time t.  The
\* client rejects an invalid Date for the DateTime column before any query;
\* dbOk is whether the database answers; the unique index rejects a second
\* row for a token.  createdAt defaults to now().
Create(table, token, expiresAt, t, dbOk) ==
  IF ~expiresAt.valid THEN [error |-> "PrismaValidationError", table |-> table]
  ELSE IF ~dbOk THEN [error |-> "StorageError", table |-> table]
  ELSE IF UniqueViolation(table, token) THEN [error |-> "P2002", table |-> table]
  ELSE [error |-> "none", table |-> Append(table, Row(token, expiresAt, t))]

\* The User table: a sequence of rows; a row's id (autoincrement) is its
\* position, and a deleted row leaves its id unused.  email is unique,
\* username is optional and unique.
UserRow(email, username, password, disabled) ==
  [present |-> TRUE, email |-> email, username |-> username,
   password |-> password, disabled |-> disabled]

DeletedRow ==
  [present |-> FALSE, email |-> Null, username |-> Null,
   password |-> Null, disabled |-> FALSE]

UserIds(table) == {i \in 1..Len(table) : table[i].present}

\* A user object as the queries return it: the row with its id
UserObject(table, i) ==
  [id |-> i, email |-> table[i].email, username |-> table[i].username,
   password |-> table[i].password, disabled |-> table[i].disabled]

\* null as a query's answer or a method's result
NoUser == [null |-> TRUE]

\* UsersService.findOneByEmail(email): findUnique({ where: { email } })
FindOneByEmail(table, email) == {i \in UserIds(table) : table[i].email = email}

\* UsersService.findOneByUsername(username): findUnique({ where: { username } })
FindOneByUsername(table, username) ==
  {i \in UserIds(table) : table[i].username = username}

\* UsersService.findOne(identifier):
\* findFirst({ where: { OR: [{ email: identifier }, { username: identifier }] } })
FindOne(table, identifier) ==
  {i \in UserIds(table) :
     table[i].email = identifier \/ table[i].username = identifier}

\* UsersService.create(data) with the answer of the database: the unique
\* indexes on email and on username (null is no value) reject a duplicate
CreateUser(table, email, username, password, dbOk) ==
  IF ~dbOk THEN [error |-> "StorageError", table |-> table]
  ELSE IF \/ FindOneByEmail(table, email) # {}
          \/ username # Null /\ FindOneByUsername(table, username) # {}
  THEN [error |-> "P2002", table |-> table]
  ELSE [error |-> "none",
        table |-> Append(table, UserRow(email, username, password, FALSE))]

\* bcrypt.hash(password, 10) and bcrypt.compare(password, hash)
Hash(password) == <<"bcrypt", password>>

Compare(password, hash) == hash = Hash(password)

\* The accounts that exist from the start
InitialUser(u) == UserRow(Email(u), Username(u), Hash(Password(1)), FALSE)

\* ---------------------------------------------------------------- state
VARIABLES
  now,             \* Date.now(), milliseconds
  tokenBlacklist,  \* the TokenBlacklist table
  issued,          \* token strings login has handed out (held by clients, not stored)
  loggedOut,       \* history: tokens for which AuthService.logout resolved
  calls,           \* the calls in flight, one per slot
  users,           \* the User table
  jobs,            \* the jobs added to the queue, in order
  config,          \* the configuration read at startup
  cache            \* the response cache: the entry under the URL of GET /auth/profile

vars == <<now, tokenBlacklist, issued, loggedOut, calls, users, jobs, config, cache>>

\* A call.  queried: findFirst was issued; createCalled: create was issued;
\* setCookie: the Set-Cookie header of the response; raced (history): when this
\* call's insert was answered, another insert of the same token was pending.
\* cookie: a cookie string computed by a direct call of the cookie helpers,
\* clock: the two readings of the clock that call made.
\* args: the arguments of validateUser or register; user: the user object a
\* query answered; result: what the method returned; compared: bcrypt.compare
\* was called; pending: the lookups of register not yet answered; found: the
\* lookups of register that found a user; enqueued: addJob was called.
\* startedRevoked (history): the request came to the logout route with a token
\* for which a logout had already resolved.
\* pc: idle | findFirst (validate awaits the lookup) | create (logout awaits
\* the insert) | clear (AuthController.logout resumes after the await) |
\* handler (the guard passed, the route handler is about to run) | done
Idle ==
  [pc |-> "idle", op |-> "none", route |-> "none", token |-> NoCookie,
   expiresAt |-> InvalidDate, outcome |-> "none", userId |-> 0, username |-> Null,
   queried |-> FALSE, createCalled |-> FALSE, setCookie |-> "none",
   raced |-> FALSE, cookie |-> <<>>, clock |-> <<0, 0>>,
   args |-> <<>>, user |-> NoUser, result |-> NoUser, compared |-> FALSE,
   pending |-> {}, found |-> {}, enqueued |-> FALSE, startedRevoked |-> FALSE]

\* jwt.expiresIn as the duration string of ExpiresInSec seconds, no cookie domain
DefaultConfig ==
  [cookieDomain |-> Undefined, expiresIn |-> <<ToString(ExpiresInSec), "s">>]

\* No response is cached
NoEntry == [present |-> FALSE, value |-> NoUser, expires |-> 0]

Init ==
  /\ config = DefaultConfig
  /\ cache = NoEntry
  /\ now = 0
  /\ tokenBlacklist = <<>>
  /\ issued = {}
  /\ loggedOut = {}
  /\ calls = [c \in Reqs |-> Idle]
  /\ users = [u \in Users |-> InitialUser(u)]
  /\ jobs = <<>>

\* What a caller can put in the Authentication cookie
Cookies == issued \cup ForeignTokens \cup {NoCookie, EmptyCookie}

\* Inserts that have been started and not yet answered
PendingCreates == Cardinality({c \in Reqs : calls[c].pc = "create"})

\* The call in slot c goes on as rec.  startedRevoked (history) is fixed when
\* a request to the logout route arrives and stays with it to its end.
Set(c, rec) ==
  calls' = [calls EXCEPT ![c] =
    [rec EXCEPT !.startedRevoked =
       IF rec.pc = "idle" THEN FALSE
       ELSE IF calls[c].pc = "idle"
       THEN rec.route = "logout" /\ rec.token \in loggedOut
       ELSE calls[c].startedRevoked]]

\* ---------------------------------------------------------------- clock
Tick ==
  /\ now + TickMs <= MaxNow
  /\ now' = now + TickMs
  /\ UNCHANGED <<tokenBlacklist, issued, loggedOut, calls, users, jobs, config, cache>>

\* ---------------------------------------------------------------- login
\* Mutant of Login: the issued token is also written to the database
LoginPersisting(c, u) ==
  /\ calls[c].pc = "idle"
  /\ u \in UserIds(users)
  /\ LET token == Sign(u, users[u].username, now)
     IN /\ issued' = issued \cup {token}
        /\ tokenBlacklist' =
             IF Len(tokenBlacklist) < MaxRecords /\ ~FindFirst(tokenBlacklist, token)
             THEN Append(tokenBlacklist, Row(token, DateOf(token.exp * MsPerSec), now))
             ELSE tokenBlacklist
        /\ Set(c, [Idle EXCEPT !.pc = "done", !.op = "login", !.token = token,
                               !.userId = u, !.username = users[u].username,
                               !.setCookie = "token", !.outcome = "ok"])
  /\ UNCHANGED <<now, loggedOut, users, jobs, config, cache>>

\* AuthService.login(user) as called by AuthController.login: signs the claims
\* and returns the cookie, which the controller puts in Set-Cookie.  Nothing is
\* stored; the client now holds the token.
Login(c, u) ==
  /\ calls[c].pc = "idle"
  /\ u \in UserIds(users)
  /\ LET token == Sign(u, users[u].username, now)
     IN /\ issued' = issued \cup {token}
        /\ Set(c, [Idle EXCEPT !.pc = "done", !.op = "login", !.token = token,
                               !.userId = u, !.username = users[u].username,
                               !.setCookie = "token", !.outcome = "ok"])
  /\ UNCHANGED <<now, tokenBlacklist, loggedOut, users, jobs, config, cache>>

\* ---------------------------------------------------------------- validator
\* Mutant of ValidateBody: the lookup is issued before the cookie is checked
ValidateBodyLookupFirst(c, route, op, cookie, sub) ==
  calls' = [calls EXCEPT ![c] =
             [Idle EXCEPT !.op = op, !.route = route, !.token = cookie,
                          !.pc = "findFirst", !.queried = TRUE, !.userId = sub]]

\* JwtStrategy.validate(req, payload) up to its await: no cookie is rejected
\* before any lookup, otherwise findFirst is issued
ValidateBody(c, route, op, cookie, sub) ==
  LET base == [Idle EXCEPT !.op = op, !.route = route, !.token = cookie]
  IN IF Falsy(cookie)
     THEN Set(c, [base EXCEPT !.pc = "done",
                              !.outcome = "Unauthorized: No authentication cookie found"])
     ELSE Set(c, [base EXCEPT !.pc = "findFirst", !.queried = TRUE, !.userId = sub])

\* A direct call of JwtStrategy.validate, with the decoded claims as payload
ValidateCall(c, cookie) ==
  /\ calls[c].pc = "idle"
  /\ ValidateBody(c, "none", "validate", cookie, Decode(cookie).sub)
  /\ UNCHANGED <<now, tokenBlacklist, issued, loggedOut, users, jobs, config, cache>>

\* The strategy as passport runs it: extract the cookie, verify signature and
\* expiry, then call validate with the verified payload
AuthenticateBody(c, route, cookie) ==
  LET token == JwtFromRequest(cookie)
      base == [Idle EXCEPT !.op = "authenticate", !.route = route, !.token = cookie]
  IN IF Falsy(token)
     THEN Set(c, [base EXCEPT !.pc = "done", !.outcome = "Unauthorized: No auth token"])
     ELSE IF ~VerifyToken(token, now)
     THEN Set(c, [base EXCEPT !.pc = "done", !.outcome = "Unauthorized: jwt verification"])
     ELSE ValidateBody(c, route, "authenticate", cookie, Decode(token).sub)

Authenticate(c, cookie) ==
  /\ calls[c].pc = "idle"
  /\ AuthenticateBody(c, "none", cookie)
  /\ UNCHANGED <<now, tokenBlacklist, issued, loggedOut, users, jobs, config, cache>>

\* Mutant of FindFirstReturn: the user of the token is read from the User
\* table, a missing or disabled user is rejected
FindFirstReturnReadsUser(c) ==
  /\ calls[c].pc = "findFirst"
  /\ IF \/ FindFirst(tokenBlacklist, calls[c].token)
        \/ calls[c].userId \notin UserIds(users)
        \/ users[calls[c].userId].disabled
     THEN Set(c, [calls[c] EXCEPT !.pc = "done", !.outcome = "Unauthorized", !.userId = 0])
     ELSE Set(c, [calls[c] EXCEPT !.pc = IF calls[c].route = "none" THEN "done"
                                         ELSE "handler",
                                  !.outcome = "accepted",
                                  !.username = users[calls[c].userId].username])
  /\ UNCHANGED <<now, tokenBlacklist, issued, loggedOut, users, jobs, config, cache>>

\* validate resumes with the answer of findFirst: a row rejects, no row
\* returns { userId: payload.sub, username }
FindFirstReturn(c) ==
  /\ calls[c].pc = "findFirst"
  /\ IF FindFirst(tokenBlacklist, calls[c].token)
     THEN Set(c, [calls[c] EXCEPT !.pc = "done", !.outcome = "Unauthorized", !.userId = 0])
     ELSE IF calls[c].route = "none"
     THEN Set(c, [calls[c] EXCEPT !.pc = "done", !.outcome = "accepted",
                                  !.username = Decode(calls[c].token).username])
     ELSE Set(c, [calls[c] EXCEPT !.pc = "handler", !.outcome = "accepted",
                                  !.username = Decode(calls[c].token).username])
  /\ UNCHANGED <<now, tokenBlacklist, issued, loggedOut, users, jobs, config, cache>>

\* ---------------------------------------------------------------- logout
\* Mutant of ExpiresAtOf: exp is taken as milliseconds
ExpiresAtOfSeconds(decoded) ==
  IF decoded.hasExp THEN DateOf(decoded.exp) ELSE InvalidDate

\* new Date(decoded.exp * 1000): NaN, the invalid date, when exp is missing
ExpiresAtOf(decoded) ==
  IF decoded.hasExp THEN DateOf(decoded.exp * MsPerSec) ELSE InvalidDate

\* Mutant of InvalidDecoded: only the null check, no typeof check
InvalidDecodedNullOnly(decoded) == decoded.type = "null"

\* if (!decoded || typeof decoded !== 'object')
InvalidDecoded(decoded) == decoded.type # "object"

\* AuthService.logout(token) up to its await: decode, reject what does not
\* decode to an object, otherwise issue the insert
SvcLogoutBody(c, route, op, token) ==
  LET decoded == Decode(token)
      base == [Idle EXCEPT !.op = op, !.route = route, !.token = token]
  IN IF InvalidDecoded(decoded)
     THEN Set(c, [base EXCEPT !.pc = "done", !.outcome = "BadRequest: Invalid token"])
     ELSE Set(c, [base EXCEPT !.pc = "create", !.createCalled = TRUE,
                              !.expiresAt = ExpiresAtOf(decoded)])

\* Mutant of CtlLogoutBody: the cookie is handed on without the check
CtlLogoutBodyUnchecked(c, route, cookie) ==
  SvcLogoutBody(c, route, "ctlLogout", cookie)

\* Mutant of CtlLogoutBody: the clearing cookie is set before the await
CtlLogoutBodyClearFirst(c, route, cookie) ==
  LET decoded == Decode(cookie)
      base == [Idle EXCEPT !.op = "ctlLogout", !.route = route, !.token = cookie]
  IN IF Falsy(cookie)
     THEN Set(c, [base EXCEPT !.pc = "done",
                              !.outcome = "Unauthorized: No authentication cookie found"])
     ELSE IF InvalidDecoded(decoded)
     THEN Set(c, [base EXCEPT !.pc = "done", !.outcome = "BadRequest: Invalid token"])
     ELSE Set(c, [base EXCEPT !.pc = "create", !.createCalled = TRUE,
                              !.setCookie = "clear",
                              !.expiresAt = ExpiresAtOf(decoded)])

\* AuthController.logout(req, response) up to its await: no cookie is
\* rejected, otherwise AuthService.logout runs with the cookie's token
CtlLogoutBody(c, route, cookie) ==
  IF Falsy(cookie)
  THEN Set(c, [Idle EXCEPT !.pc = "done", !.op = "ctlLogout", !.route = route,
                           !.token = cookie,
                           !.outcome = "Unauthorized: No authentication cookie found"])
  ELSE SvcLogoutBody(c, route, "ctlLogout", cookie)

\* Room in the model's table for one more insert
Room == Len(tokenBlacklist) + PendingCreates < MaxRecords

\* A direct call of AuthService.logout
SvcLogoutCall(c, token) ==
  /\ calls[c].pc = "idle"
  /\ Room
  /\ SvcLogoutBody(c, "none", "svcLogout", token)
  /\ UNCHANGED <<now, tokenBlacklist, issued, loggedOut, users, jobs, config, cache>>

\* A direct call of AuthController.logout
CtlLogoutCall(c, cookie) ==
  /\ calls[c].pc = "idle"
  /\ Room
  /\ CtlLogoutBody(c, "none", cookie)
  /\ UNCHANGED <<now, tokenBlacklist, issued, loggedOut, users, jobs, config, cache>>

\* Another call's insert of the same token is pending
Raced(c) ==
  \E d \in Reqs \ {c} : calls[d].pc = "create" /\ calls[d].token = calls[c].token

\* Mutant of CreateReturn: the other tokens issued to the same user are
\* recorded along with the token
CreateReturnAllOfSubject(c, dbOk) ==
  /\ calls[c].pc = "create"
  /\ LET r == Create(tokenBlacklist, calls[c].token, calls[c].expiresAt, now, dbOk)
         others == {k \in issued : /\ k # calls[c].token
                                    /\ k.sub = calls[c].token.sub
                                    /\ RowsOf(tokenBlacklist, k) = {}}
     IN IF r.error # "none"
        THEN /\ tokenBlacklist' = r.table
             /\ Set(c, [calls[c] EXCEPT !.pc = "done", !.outcome = r.error])
             /\ UNCHANGED loggedOut
        ELSE /\ tokenBlacklist' =
                  IF others = {} THEN r.table
                  ELSE Append(r.table, Row(CHOOSE k \in others : TRUE,
                                           calls[c].expiresAt, now))
             /\ loggedOut' = loggedOut \cup {calls[c].token}
             /\ IF calls[c].op = "svcLogout"
                THEN Set(c, [calls[c] EXCEPT !.pc = "done", !.outcome = "ok",
                                             !.raced = Raced(c)])
                ELSE Set(c, [calls[c] EXCEPT !.pc = "clear", !.raced = Raced(c)])
  /\ UNCHANGED <<now, issued, users, jobs, config, cache>>

\* Mutant of CreateReturn: the controller catches the failure and carries on
CreateReturnSwallowed(c, dbOk) ==
  /\ calls[c].pc = "create"
  /\ LET r == Create(tokenBlacklist, calls[c].token, calls[c].expiresAt, now, dbOk)
     IN /\ tokenBlacklist' = r.table
        /\ loggedOut' = IF r.error = "none" THEN loggedOut \cup {calls[c].token}
                        ELSE loggedOut
        /\ IF calls[c].op = "svcLogout"
           THEN Set(c, [calls[c] EXCEPT !.pc = "done",
                          !.outcome = IF r.error = "none" THEN "ok" ELSE r.error])
           ELSE Set(c, [calls[c] EXCEPT !.pc = "clear"])
  /\ UNCHANGED <<now, issued, users, jobs, config, cache>>

\* The database answers the insert and AuthService.logout settles: it resolves
\* when the row is written and rejects with the storage error otherwise.  In
\* the controller a rejection leaves the handler (nothing catches it) and a
\* resolution resumes it after the await.
CreateReturn(c, dbOk) ==
  /\ calls[c].pc = "create"
  /\ LET r == Create(tokenBlacklist, calls[c].token, calls[c].expiresAt, now, dbOk)
     IN /\ tokenBlacklist' = r.table
        /\ IF r.error # "none"
           THEN /\ Set(c, [calls[c] EXCEPT !.pc = "done", !.outcome = r.error])
                /\ UNCHANGED loggedOut
           ELSE /\ loggedOut' = loggedOut \cup {calls[c].token}
                /\ IF calls[c].op = "svcLogout"
                   THEN Set(c, [calls[c] EXCEPT !.pc = "done", !.outcome = "ok",
                                                !.raced = Raced(c)])
                   ELSE Set(c, [calls[c] EXCEPT !.pc = "clear", !.raced = Raced(c)])
  /\ UNCHANGED <<now, issued, users, jobs, config, cache>>

\* AuthController.logout after the await: the clearing cookie, then the body
CtlLogoutFinish(c) ==
  /\ calls[c].pc = "clear"
  /\ Set(c, [calls[c] EXCEPT !.pc = "done", !.setCookie = "clear",
                             !.outcome = "ok: Logout successful"])
  /\ UNCHANGED <<now, tokenBlacklist, issued, loggedOut, users, jobs, config, cache>>

\* The caller has its answer; the slot is free again
Return(c) ==
  /\ calls[c].pc = "done"
  /\ Set(c, Idle)
  /\ UNCHANGED <<now, tokenBlacklist, issued, loggedOut, users, jobs, config, cache>>

\* ---------------------------------------------------------------- specification
\* The methods as any caller can invoke them
Next ==
  \/ Tick
  \/ \E c \in Reqs, u \in Users : Login(c, u)
  \/ \E c \in Reqs, k \in Cookies : ValidateCall(c, k)
  \/ \E c \in Reqs, k \in Cookies : Authenticate(c, k)
  \/ \E c \in Reqs : FindFirstReturn(c)
  \/ \E c \in Reqs, k \in Cookies : SvcLogoutCall(c, k)
  \/ \E c \in Reqs, k \in Cookies : CtlLogoutCall(c, k)
  \/ \E c \in Reqs, dbOk \in BOOLEAN : CreateReturn(c, dbOk)
  \/ \E c \in Reqs : CtlLogoutFinish(c)
  \/ \E c \in Reqs : Return(c)

Spec == Init /\ [][Next]_vars

\* ---------------------------------------------------------------- the HTTP application
\* The global guard (APP_GUARD JwtAuthGuard): every route that is not marked
\* @Public() runs the jwt strategy before its handler
JwtAuthGuard(c, route, cookie) == AuthenticateBody(c, route, cookie)

\* Routes behind the guard: POST /auth/logout, and any other protected route
ProtectedRoutes == {"logout", "protected"}

\* A request to a protected route arrives
HttpRequest(c, route, cookie) ==
  /\ calls[c].pc = "idle"
  /\ JwtAuthGuard(c, route, cookie)
  /\ UNCHANGED <<now, tokenBlacklist, issued, loggedOut, users, jobs, config, cache>>

\* The guard passed: the route's handler runs up to its first await
Handler(c) ==
  /\ calls[c].pc = "handler"
  /\ IF calls[c].route = "logout"
     THEN Room /\ CtlLogoutBody(c, "logout", calls[c].token)
     ELSE Set(c, [calls[c] EXCEPT !.pc = "done", !.outcome = "ok"])
  /\ UNCHANGED <<now, tokenBlacklist, issued, loggedOut, users, jobs, config, cache>>

\* The application as deployed: clients reach the code through routes only
HttpNext ==
  \/ Tick
  \/ \E c \in Reqs, u \in Users : Login(c, u)
  \/ \E c \in Reqs, r \in ProtectedRoutes, k \in Cookies : HttpRequest(c, r, k)
  \/ \E c \in Reqs : FindFirstReturn(c)
  \/ \E c \in Reqs : Handler(c)
  \/ \E c \in Reqs, dbOk \in BOOLEAN : CreateReturn(c, dbOk)
  \/ \E c \in Reqs : CtlLogoutFinish(c)
  \/ \E c \in Reqs : Return(c)

HttpSpec == Init /\ [][HttpNext]_vars

\* ---------------------------------------------------------------- users
\* const { password, ...result } = user
WithoutPassword(user) == [f \in DOMAIN user \ {"password"} |-> user[f]]

\* AuthService.validateUser(identifier, pass) up to its first await
ValidateUserCall(c, identifier, pass) ==
  /\ calls[c].pc = "idle"
  /\ Set(c, [Idle EXCEPT !.pc = "findOne", !.op = "validateUser",
                         !.args = <<identifier, pass>>])
  /\ UNCHANGED <<now, tokenBlacklist, issued, loggedOut, users, jobs, config, cache>>

\* Where validateUser returns to: its caller, or LocalStrategy.validate when
\* the login route called it
ValidateUserEnd(call) == IF call.route = "login" THEN "validated" ELSE "done"

\* Mutant of FindOneReturn: a disabled account is compared like any other
FindOneReturnDisabledToo(c) ==
  /\ calls[c].pc = "findOne"
  /\ LET match == FindOne(users, calls[c].args[1])
     IN IF match = {}
        THEN Set(c, [calls[c] EXCEPT !.pc = ValidateUserEnd(calls[c]), !.result = NoUser])
        ELSE \E i \in match :
               Set(c, [calls[c] EXCEPT !.pc = "compare", !.compared = TRUE,
                                       !.user = UserObject(users, i)])
  /\ UNCHANGED <<now, tokenBlacklist, issued, loggedOut, users, jobs, config, cache>>

\* validateUser resumes with the answer of findOne: null for no user and for
\* a disabled one, otherwise bcrypt.compare is called
FindOneReturn(c) ==
  /\ calls[c].pc = "findOne"
  /\ LET match == FindOne(users, calls[c].args[1])
     IN IF match = {}
        THEN Set(c, [calls[c] EXCEPT !.pc = ValidateUserEnd(calls[c]), !.result = NoUser])
        ELSE \E i \in match :
               IF users[i].disabled
               THEN Set(c, [calls[c] EXCEPT !.pc = ValidateUserEnd(calls[c]),
                                            !.result = NoUser,
                                            !.user = UserObject(users, i)])
               ELSE Set(c, [calls[c] EXCEPT !.pc = "compare", !.compared = TRUE,
                                            !.user = UserObject(users, i)])
  /\ UNCHANGED <<now, tokenBlacklist, issued, loggedOut, users, jobs, config, cache>>

\* Mutant of CompareReturn: the answer of bcrypt.compare is not looked at
CompareReturnAnyPassword(c) ==
  /\ calls[c].pc = "compare"
  /\ Set(c, [calls[c] EXCEPT !.pc = ValidateUserEnd(calls[c]),
                             !.result = WithoutPassword(calls[c].user)])
  /\ UNCHANGED <<now, tokenBlacklist, issued, loggedOut, users, jobs, config, cache>>

\* validateUser resumes with the answer of bcrypt.compare: the user without
\* its password, or null
CompareReturn(c) ==
  /\ calls[c].pc = "compare"
  /\ IF Compare(calls[c].args[2], calls[c].user.password)
     THEN Set(c, [calls[c] EXCEPT !.pc = ValidateUserEnd(calls[c]),
                                  !.result = WithoutPassword(calls[c].user)])
     ELSE Set(c, [calls[c] EXCEPT !.pc = ValidateUserEnd(calls[c]), !.result = NoUser])
  /\ UNCHANGED <<now, tokenBlacklist, issued, loggedOut, users, jobs, config, cache>>

\* register calls start while the model's User table has room for a row; the
\* calls in flight at that time can each add theirs
UserRoom == Len(users) < MaxUserRows

\* AuthService.register(email, password, username) up to its first await:
\* Promise.all of the lookup by email and, for a truthy username, the lookup
\* by username
RegisterCall(c, email, password, username) ==
  /\ calls[c].pc = "idle"
  /\ UserRoom
  /\ Set(c, [Idle EXCEPT !.pc = "lookup", !.op = "register",
                         !.args = <<email, password, username>>,
                         !.pending = IF username = Null THEN {"email"}
                                     ELSE {"email", "username"}])
  /\ UNCHANGED <<now, tokenBlacklist, issued, loggedOut, users, jobs, config, cache>>

\* Mutant of LookupReturn: the answers of the lookups are not looked at
LookupReturnUnchecked(c, which) ==
  /\ calls[c].pc = "lookup"
  /\ which \in calls[c].pending
  /\ LET pending == calls[c].pending \ {which}
     IN IF pending # {}
        THEN Set(c, [calls[c] EXCEPT !.pending = pending])
        ELSE Set(c, [calls[c] EXCEPT !.pending = pending, !.pc = "hash"])
  /\ UNCHANGED <<now, tokenBlacklist, issued, loggedOut, users, jobs, config, cache>>

\* The database answers one of register's lookups.  With the last answer
\* Promise.all resolves and register goes on: an existing email, then an
\* existing username, is rejected; otherwise bcrypt.hash is called
LookupReturn(c, which) ==
  /\ calls[c].pc = "lookup"
  /\ which \in calls[c].pending
  /\ LET match == IF which = "email" THEN FindOneByEmail(users, calls[c].args[1])
                  ELSE FindOneByUsername(users, calls[c].args[3])
         found == IF match # {} THEN calls[c].found \cup {which} ELSE calls[c].found
         pending == calls[c].pending \ {which}
         rec == [calls[c] EXCEPT !.pending = pending, !.found = found]
     IN IF pending # {} THEN Set(c, rec)
        ELSE IF "email" \in found
        THEN Set(c, [rec EXCEPT !.pc = "done",
                                !.outcome = "BadRequest: Email already in use"])
        ELSE IF "username" \in found
        THEN Set(c, [rec EXCEPT !.pc = "done",
                                !.outcome = "BadRequest: Username already in use"])
        ELSE Set(c, [rec EXCEPT !.pc = "hash"])
  /\ UNCHANGED <<now, tokenBlacklist, issued, loggedOut, users, jobs, config, cache>>

\* bcrypt.hash answers: register resumes with the hash and calls
\* usersService.create, or the rejection of bcrypt.hash leaves register
HashReturn(c, hashOk) ==
  /\ calls[c].pc = "hash"
  /\ IF hashOk
     THEN Set(c, [calls[c] EXCEPT !.pc = "createUser", !.createCalled = TRUE])
     ELSE Set(c, [calls[c] EXCEPT !.pc = "done", !.outcome = "HashError"])
  /\ UNCHANGED <<now, tokenBlacklist, issued, loggedOut, users, jobs, config, cache>>

\* Mutant of CreateUserReturn: the password is stored as it was sent
CreateUserReturnRawPassword(c, dbOk) ==
  /\ calls[c].pc = "createUser"
  /\ LET r == CreateUser(users, calls[c].args[1], calls[c].args[3],
                         calls[c].args[2], dbOk)
     IN /\ users' = r.table
        /\ IF r.error # "none"
           THEN Set(c, [calls[c] EXCEPT !.pc = "done", !.outcome = r.error])
           ELSE Set(c, [calls[c] EXCEPT !.pc = "addJob", !.enqueued = TRUE,
                          !.user = UserObject(r.table, Len(r.table)),
                          !.result = WithoutPassword(UserObject(r.table, Len(r.table)))])
  /\ UNCHANGED <<now, tokenBlacklist, issued, loggedOut, jobs, config, cache>>

\* Mutant of CreateUserReturn: a rejected insert is taken for the row that is
\* already there and register goes on
CreateUserReturnIgnoresConflict(c, dbOk) ==
  /\ calls[c].pc = "createUser"
  /\ LET r == CreateUser(users, calls[c].args[1], calls[c].args[3],
                         Hash(calls[c].args[2]), dbOk)
     IN /\ users' = r.table
        /\ IF r.error = "StorageError"
           THEN Set(c, [calls[c] EXCEPT !.pc = "done", !.outcome = r.error])
           ELSE Set(c, [calls[c] EXCEPT !.pc = "addJob", !.enqueued = TRUE,
                          !.user = UserObject(r.table, Len(r.table)),
                          !.result = WithoutPassword(UserObject(r.table, Len(r.table)))])
  /\ UNCHANGED <<now, tokenBlacklist, issued, loggedOut, jobs, config, cache>>

\* The database answers the insert of the user: a failure leaves register,
\* otherwise register strips the password and calls queueService.addJob
CreateUserReturn(c, dbOk) ==
  /\ calls[c].pc = "createUser"
  /\ LET r == CreateUser(users, calls[c].args[1], calls[c].args[3],
                         Hash(calls[c].args[2]), dbOk)
     IN /\ users' = r.table
        /\ IF r.error # "none"
           THEN Set(c, [calls[c] EXCEPT !.pc = "done", !.outcome = r.error])
           ELSE Set(c, [calls[c] EXCEPT !.pc = "addJob", !.enqueued = TRUE,
                          !.user = UserObject(r.table, Len(r.table)),
                          !.result = WithoutPassword(UserObject(r.table, Len(r.table)))])
  /\ UNCHANGED <<now, tokenBlacklist, issued, loggedOut, jobs, config, cache>>

\* The queue answers addJob('send-welcome-mail', { email, username, name }):
\* the job is added and register returns the user, or the failure of the
\* queue leaves register
AddJobReturn(c, queueOk) ==
  /\ calls[c].pc = "addJob"
  /\ IF queueOk
     THEN /\ jobs' = Append(jobs, [name |-> "send-welcome-mail",
                                   email |-> calls[c].user.email,
                                   username |-> calls[c].user.username])
          /\ Set(c, [calls[c] EXCEPT !.pc = "done", !.outcome = "ok"])
     ELSE /\ jobs' = jobs
          /\ Set(c, [calls[c] EXCEPT !.pc = "done", !.outcome = "QueueError",
                                      !.result = NoUser])
  /\ UNCHANGED <<now, tokenBlacklist, issued, loggedOut, users, config, cache>>

\* UsersService.setDisabledStatus(id, disabled): update({ where: { id }, data })
SetDisabledStatus(u, disabled) ==
  /\ u \in UserIds(users)
  /\ users[u].disabled # disabled
  /\ users' = [users EXCEPT ![u].disabled = disabled]
  /\ UNCHANGED <<now, tokenBlacklist, issued, loggedOut, calls, jobs, config, cache>>

\* A change of a username made in the database
RenameUser(u, username) ==
  /\ u \in UserIds(users)
  /\ users[u].username # username
  /\ FindOneByUsername(users, username) = {}
  /\ users' = [users EXCEPT ![u].username = username]
  /\ UNCHANGED <<now, tokenBlacklist, issued, loggedOut, calls, jobs, config, cache>>

\* A user row deleted in the database
DeleteUser(u) ==
  /\ u \in UserIds(users)
  /\ users' = [users EXCEPT ![u] = DeletedRow]
  /\ UNCHANGED <<now, tokenBlacklist, issued, loggedOut, calls, jobs, config, cache>>

\* The accounts: credentials are checked and accounts are registered and
\* disabled while other calls are in flight
UserNext ==
  \/ \E c \in Reqs, i \in Emails \cup Usernames, p \in Passwords :
       ValidateUserCall(c, i, p)
  \/ \E c \in Reqs : FindOneReturn(c)
  \/ \E c \in Reqs : CompareReturn(c)
  \/ \E c \in Reqs, e \in Emails, p \in Passwords, n \in Usernames \cup {Null} :
       RegisterCall(c, e, p, n)
  \/ \E c \in Reqs, which \in {"email", "username"} : LookupReturn(c, which)
  \/ \E c \in Reqs, hashOk \in BOOLEAN : HashReturn(c, hashOk)
  \/ \E c \in Reqs, dbOk \in BOOLEAN : CreateUserReturn(c, dbOk)
  \/ \E c \in Reqs, queueOk \in BOOLEAN : AddJobReturn(c, queueOk)
  \/ \E u \in 1..MaxUserRows, d \in BOOLEAN : SetDisabledStatus(u, d)
  \/ \E c \in Reqs : Return(c)

UserSpec == Init /\ [][UserNext]_vars

\* Sessions while the accounts change: a caller has tokens issued, validated
\* and revoked while users are disabled, renamed and deleted between the
\* steps of its calls
SessionReqs == {"r1"}

\* A username that no account starts with
NewUsername == Username(0)

SessionNext ==
  \/ \E c \in SessionReqs, u \in Users : Login(c, u)
  \/ \E c \in SessionReqs, k \in Cookies : ValidateCall(c, k)
  \/ \E c \in SessionReqs, k \in Cookies : Authenticate(c, k)
  \/ \E c \in SessionReqs : FindFirstReturn(c)
  \/ \E c \in SessionReqs, k \in issued : SvcLogoutCall(c, k)
  \/ \E c \in SessionReqs, dbOk \in BOOLEAN : CreateReturn(c, dbOk)
  \/ \E u \in Users, d \in BOOLEAN : SetDisabledStatus(u, d)
  \/ \E u \in Users : \E n \in {Username(u), NewUsername} : RenameUser(u, n)
  \/ \E u \in Users : DeleteUser(u)
  \/ \E c \in SessionReqs : Return(c)

SessionSpec == Init /\ [][SessionNext]_vars

\* ---------------------------------------------------------------- the login route
\* POST /auth/login arrives: LocalAuthGuard runs LocalStrategy.validate, which
\* calls validateUser with the identifier and the password of the body
LoginRequest(c, identifier, pass) ==
  /\ calls[c].pc = "idle"
  /\ Set(c, [Idle EXCEPT !.pc = "findOne", !.op = "validateUser", !.route = "login",
                         !.args = <<identifier, pass>>])
  /\ UNCHANGED <<now, tokenBlacklist, issued, loggedOut, users, jobs, config, cache>>

\* LocalStrategy.validate resumes with the answer of validateUser: null and a
\* disabled user are UnauthorizedExceptions; otherwise the user is req.user
\* and AuthController.login signs its claims and sets the cookie
LocalStrategyReturn(c) ==
  /\ calls[c].pc = "validated"
  /\ IF calls[c].result = NoUser
     THEN /\ Set(c, [calls[c] EXCEPT !.pc = "done",
                                     !.outcome = "Unauthorized: Invalid credentials"])
          /\ issued' = issued
     ELSE IF calls[c].result.disabled
     THEN /\ Set(c, [calls[c] EXCEPT !.pc = "done",
                                     !.outcome = "Unauthorized: Your account is disabled"])
          /\ issued' = issued
     ELSE LET token == Sign(calls[c].result.id, calls[c].result.username, now)
          IN /\ issued' = issued \cup {token}
             /\ Set(c, [calls[c] EXCEPT !.pc = "done", !.token = token,
                                        !.userId = calls[c].result.id,
                                        !.username = calls[c].result.username,
                                        !.setCookie = "token", !.outcome = "ok"])
  /\ UNCHANGED <<now, tokenBlacklist, loggedOut, users, jobs, config, cache>>

\* Clients sign in through the route while accounts are disabled, enabled and
\* deleted
LoginNext ==
  \/ Tick
  \/ \E c \in Reqs, i \in Emails \cup Usernames, p \in Passwords : LoginRequest(c, i, p)
  \/ \E c \in Reqs : FindOneReturn(c)
  \/ \E c \in Reqs : CompareReturn(c)
  \/ \E c \in Reqs : LocalStrategyReturn(c)
  \/ \E u \in Users, d \in BOOLEAN : SetDisabledStatus(u, d)
  \/ \E u \in Users : DeleteUser(u)
  \/ \E c \in Reqs : Return(c)

LoginSpec == Init /\ [][LoginNext]_vars

\* ---------------------------------------------------------------- the profile route
\* UsersService.findById(id): findUnique({ where: { id } })
FindById(table, id) == {i \in UserIds(table) : i = id}

\* new ProfileResponseDto(user) as ClassSerializerInterceptor sends it: the
\* exposed fields (name is carried like username)
ProfileResponseDto(user) == [email |-> user.email, username |-> user.username]

\* cacheManager.get(key) at time t: the value stored, unless its time is over
CacheGet(entry, t) ==
  IF entry.present /\ t <= entry.expires THEN entry.value ELSE NoUser

\* cacheManager.set(key, response, ttl) at time t
CacheSet(response, t) ==
  [present |-> TRUE, value |-> response, expires |-> t + CacheTtlMs]

\* GET /auth/profile arrives: the global guard runs the strategy
ProfileRequest(c, cookie) ==
  /\ calls[c].pc = "idle"
  /\ JwtAuthGuard(c, "profile", cookie)
  /\ UNCHANGED <<now, tokenBlacklist, issued, loggedOut, users, jobs, config, cache>>

\* Mutant of CacheInterceptorGet: the interceptor hands every request on
CacheInterceptorGetBypass(c) ==
  /\ calls[c].route = "profile"
  /\ calls[c].pc \in {"handler", "cacheGet"}
  /\ IF calls[c].pc = "handler"
     THEN Set(c, [calls[c] EXCEPT !.pc = "cacheGet"])
     ELSE Set(c, [calls[c] EXCEPT !.pc = "findById"])
  /\ UNCHANGED <<now, tokenBlacklist, issued, loggedOut, users, jobs, config, cache>>

\* CacheInterceptor.intercept, first as the global interceptor and then as the
\* controller's: the key is the URL of the GET request; a cached value is the
\* response and the handler does not run; without one the request goes on, at
\* last to AuthController.getProfile up to its await
CacheInterceptorGet(c) ==
  /\ calls[c].route = "profile"
  /\ calls[c].pc \in {"handler", "cacheGet"}
  /\ LET value == CacheGet(cache, now)
     IN IF value # NoUser
        THEN Set(c, [calls[c] EXCEPT !.pc = "done", !.outcome = "ok", !.result = value])
        ELSE IF calls[c].pc = "handler"
        THEN Set(c, [calls[c] EXCEPT !.pc = "cacheGet"])
        ELSE Set(c, [calls[c] EXCEPT !.pc = "findById"])
  /\ UNCHANGED <<now, tokenBlacklist, issued, loggedOut, users, jobs, config, cache>>

\* AuthService.getUserProfile resumes with the answer of findById: no user is
\* a BadRequestException; otherwise the profile is the response, which the
\* interceptors store under the URL
FindByIdReturn(c) ==
  /\ calls[c].pc = "findById"
  /\ IF FindById(users, calls[c].userId) = {}
     THEN /\ Set(c, [calls[c] EXCEPT !.pc = "done",
                                     !.outcome = "BadRequest: User not found"])
          /\ cache' = cache
     ELSE LET response == ProfileResponseDto(
                            WithoutPassword(UserObject(users, calls[c].userId)))
          IN /\ Set(c, [calls[c] EXCEPT !.pc = "done", !.outcome = "ok",
                                        !.result = response])
             /\ cache' = CacheSet(response, now)
  /\ UNCHANGED <<now, tokenBlacklist, issued, loggedOut, users, jobs, config>>

\* The accounts that read their profile
Accounts == 1..NumAccounts

ProfileInit ==
  /\ config = DefaultConfig
  /\ cache = NoEntry
  /\ now = 0
  /\ tokenBlacklist = <<>>
  /\ issued = {}
  /\ loggedOut = {}
  /\ calls = [c \in Reqs |-> Idle]
  /\ users = [u \in Accounts |-> InitialUser(u)]
  /\ jobs = <<>>

\* Signed-in users read their profile while the accounts are deleted
ProfileNext ==
  \/ Tick
  \/ \E c \in Reqs, u \in Accounts : Login(c, u)
  \/ \E c \in Reqs, k \in issued \cup {NoCookie} : ProfileRequest(c, k)
  \/ \E c \in Reqs : FindFirstReturn(c)
  \/ \E c \in Reqs : CacheInterceptorGet(c)
  \/ \E c \in Reqs : FindByIdReturn(c)
  \/ \E u \in Accounts : DeleteUser(u)
  \/ \E c \in Reqs : Return(c)

ProfileSpec == ProfileInit /\ [][ProfileNext]_vars

\* ---------------------------------------------------------------- pagination
\* Math.ceil(a / b) for a >= 0 and b >= 1
CeilDiv(a, b) == (a + b - 1) \div b

\* The rows findMany({ skip, take }) returns from a table of that many rows
ItemsOf(rows, skip, take) ==
  IF rows <= skip THEN 0 ELSE IF rows - skip < take THEN rows - skip ELSE take

\* The pagination metadata: page = Math.floor(skip / take),
\* totalPages = Math.ceil(total / take), hasNextPage = skip + take < total,
\* hasPrevPage = skip > 0
Metadata(items, total, skip, take) ==
  [items |-> items, total |-> total, page |-> skip \div take, pageSize |-> take,
   totalPages |-> CeilDiv(total, take),
   hasNextPage |-> skip + take < total, hasPrevPage |-> skip > 0]

\* PaginationService.paginate(model, { skip, take }) up to its first await
PaginateCall(c, skip, take) ==
  /\ calls[c].pc = "idle"
  /\ Set(c, [Idle EXCEPT !.pc = "findMany", !.op = "paginate", !.args = <<skip, take>>])
  /\ UNCHANGED <<now, tokenBlacklist, issued, loggedOut, users, jobs, config, cache>>

\* model.findMany answers from a table of rows rows; model.count is called
FindManyReturn(c, rows) ==
  /\ calls[c].pc = "findMany"
  /\ Set(c, [calls[c] EXCEPT !.pc = "count",
                             !.result = [items |-> ItemsOf(rows, calls[c].args[1],
                                                           calls[c].args[2])]])
  /\ UNCHANGED <<now, tokenBlacklist, issued, loggedOut, users, jobs, config, cache>>

\* model.count answers total: paginate returns the items with the metadata
CountReturn(c, total) ==
  /\ calls[c].pc = "count"
  /\ Set(c, [calls[c] EXCEPT !.pc = "done", !.outcome = "ok",
                             !.result = Metadata(calls[c].result.items, total,
                                                 calls[c].args[1], calls[c].args[2])])
  /\ UNCHANGED <<now, tokenBlacklist, issued, loggedOut, users, jobs, config, cache>>

\* Paginated queries, one at a time, of a model whose rows come and go
PageNext ==
  \/ \E c \in SessionReqs, skip \in 0..MaxSkip, take \in 1..MaxTake :
       PaginateCall(c, skip, take)
  \/ \E c \in SessionReqs, rows \in 0..MaxTotal : FindManyReturn(c, rows)
  \/ \E c \in SessionReqs, total \in 0..MaxTotal : CountReturn(c, total)
  \/ \E c \in SessionReqs : Return(c)

PageSpec == Init /\ [][PageNext]_vars

\* ---------------------------------------------------------------- the cookie helpers
\* Values of JWT_EXPIRES_IN (any string; '60m' when not set)
DurationStrings ==
  {<<"1", "d">>, <<"2", "d">>, <<"7", "h">>, <<"3", "0", "m">>, <<"6", "0", "m">>,
   <<"4", "5", "s">>, <<"x", "y", "z">>, <<"1", "w">>, <<"9", "0">>, <<"d">>,
   <<"-", "1", "d">>, <<"1", ".", "5", "h">>}

\* Values of COOKIE_DOMAIN: not set, empty, a domain
CookieDomains == {Undefined, <<>>, <<"example.com">>}

Configs == [cookieDomain : CookieDomains, expiresIn : DurationStrings]

\* The server starts with any configuration
CookieInit ==
  /\ config \in Configs
  /\ cache = NoEntry
  /\ now = 0
  /\ tokenBlacklist = <<>>
  /\ issued = {}
  /\ loggedOut = {}
  /\ calls = [c \in Reqs |-> Idle]
  /\ users = [u \in Users |-> InitialUser(u)]
  /\ jobs = <<>>

\* Tokens handed to getTokenCookie
CookieTokens == {Sign(u, Username(u), 0) : u \in Users} \cup {Forged}

\* A call of getTokenCookie(token), as login makes it; dt milliseconds pass
\* between new Date() in calculateExpirationDate and Date.now()
GetTokenCookieCall(c, token, dt) ==
  /\ calls[c].pc = "idle"
  /\ Set(c, [Idle EXCEPT !.pc = "done", !.op = "getTokenCookie", !.token = token,
                         !.clock = <<now, now + dt>>,
                         !.cookie = GetTokenCookie(token, config, now, now + dt)])
  /\ UNCHANGED <<now, tokenBlacklist, issued, loggedOut, users, jobs, config, cache>>

\* AuthService.login(user) under the configuration: jwtService.sign gives the
\* token the lifetime of signOptions.expiresIn, or throws; getTokenCookie
\* builds the cookie from the same string
ConfiguredLogin(c, u, dt) ==
  /\ calls[c].pc = "idle"
  /\ u \in UserIds(users)
  /\ LET life == JwtLifetime(config.expiresIn)
         token == Token("jwt", u, users[u].username, NowSec(now),
                        NowSec(now) + life.seconds)
     IN IF ~life.defined
        THEN /\ Set(c, [Idle EXCEPT !.pc = "done", !.op = "login", !.userId = u,
                                    !.outcome = "Error: expiresIn"])
             /\ issued' = issued
        ELSE /\ Set(c, [Idle EXCEPT !.pc = "done", !.op = "login", !.userId = u,
                                    !.token = token, !.username = users[u].username,
                                    !.clock = <<now, now + dt>>,
                                    !.cookie = GetTokenCookie(token, config, now, now + dt),
                                    !.setCookie = "token", !.outcome = "ok"])
             /\ issued' = issued \cup {token}
  /\ UNCHANGED <<now, tokenBlacklist, loggedOut, users, jobs, config, cache>>

\* A call of getClearAuthCookie(), as logout makes it
GetClearAuthCookieCall(c) ==
  /\ calls[c].pc = "idle"
  /\ Set(c, [Idle EXCEPT !.pc = "done", !.op = "getClearAuthCookie",
                         !.clock = <<now, now>>,
                         !.cookie = GetClearAuthCookie(config)])
  /\ UNCHANGED <<now, tokenBlacklist, issued, loggedOut, users, jobs, config, cache>>

CookieNext ==
  \/ Tick
  \/ \E c \in Reqs, k \in CookieTokens, dt \in 0..MaxClockStepMs :
       GetTokenCookieCall(c, k, dt)
  \/ \E c \in Reqs : GetClearAuthCookieCall(c)
  \/ \E c \in Reqs, u \in Users, dt \in 0..MaxClockStepMs : ConfiguredLogin(c, u, dt)
  \/ \E c \in Reqs : Return(c)

CookieSpec == CookieInit /\ [][CookieNext]_vars

\* ---------------------------------------------------------------- properties
IsLogout(c) == calls[c].op \in {"svcLogout", "ctlLogout"}
\* AuthService.logout resolved for the call in slot c
LogoutResolved(c) ==
  /\ IsLogout(c)
  /\ \/ calls[c].pc = "clear"
     \/ calls[c].pc = "done" /\ calls[c].outcome \in {"ok", "ok: Logout successful"}
Accepted(c) == calls[c].outcome = "accepted"

\* C1: once AuthService.logout has resolved for a token, every lookup the
\* validator makes for that token from then on rejects it with Unauthorized,
\* whatever else has happened in between, and no step removes or alters a row
\* of the revocation table.
C1_RevokedTokenRejected ==
  [][/\ \A c \in Reqs :
          (/\ calls[c].pc = "findFirst"
           /\ calls[c].token \in loggedOut
           /\ calls'[c] # calls[c])
          => (calls'[c].pc = "done" /\ calls'[c].outcome = "Unauthorized")
     /\ \A i \in 1..Len(tokenBlacklist) :
          Len(tokenBlacklist') >= i /\ tokenBlacklist'[i] = tokenBlacklist[i]
    ]_vars

\* C1 witness: the strategy has rejected a logged-out token whose signature
\* and expiry are still valid, after a later logout of another token.
C1_Witness ==
  \E c \in Reqs :
    /\ calls[c].op = "authenticate" /\ calls[c].pc = "done"
    /\ calls[c].outcome = "Unauthorized"
    /\ calls[c].token \in loggedOut
    /\ VerifyToken(calls[c].token, now)
    /\ Len(tokenBlacklist) >= 2
    /\ tokenBlacklist[1].token = calls[c].token

\* C2: a token that login has just issued is not in the revocation table, so
\* a validation right after the login accepts it.
C2_RoundTrip ==
  [][\A c \in Reqs :
       (calls[c].pc = "idle" /\ calls'[c].op = "login")
       => ~FindFirst(tokenBlacklist', calls'[c].token)
    ]_vars

\* C3: the revocation table never holds two rows for one token; a logout that
\* resolved has its row; a logout is refused by the unique index only when a
\* row for that very token exists; of two logouts of the same token at most
\* one resolves, and when the inserts raced the other one failed with the
\* uniqueness violation unless the database was down.
C3_ConcurrentLogout ==
  /\ \A i, j \in 1..Len(tokenBlacklist) :
       tokenBlacklist[i].token = tokenBlacklist[j].token => i = j
  /\ \A c \in Reqs :
       /\ LogoutResolved(c) => Cardinality(RowsOf(tokenBlacklist, calls[c].token)) = 1
       /\ (IsLogout(c) /\ calls[c].outcome = "P2002")
          => Cardinality(RowsOf(tokenBlacklist, calls[c].token)) = 1
  /\ \A c, d \in Reqs :
       (c # d /\ IsLogout(c) /\ IsLogout(d) /\ calls[c].token = calls[d].token)
       => /\ ~(LogoutResolved(c) /\ LogoutResolved(d))
          /\ (LogoutResolved(c) /\ calls[c].raced /\ calls[d].pc = "done")
             => calls[d].outcome \in {"P2002", "StorageError"}

\* C3 witness: two inserts of the same token raced, one resolved and the other
\* failed on the unique index, leaving one row.
C3_Witness ==
  \E c, d \in Reqs :
    /\ c # d /\ calls[c].token = calls[d].token
    /\ LogoutResolved(c) /\ calls[c].raced
    /\ IsLogout(d) /\ calls[d].pc = "done" /\ calls[d].outcome = "P2002"
    /\ Cardinality(RowsOf(tokenBlacklist, calls[c].token)) = 1

\* Two concurrent logouts of distinct tokens both resolved, each with its row
C3_WitnessDistinct ==
  \E c, d \in Reqs :
    /\ c # d /\ calls[c].token # calls[d].token
    /\ LogoutResolved(c) /\ LogoutResolved(d)
    /\ calls[c].raced = FALSE /\ calls[d].raced = FALSE
    /\ Len(tokenBlacklist) = 2

\* C4: AuthController.logout sets the clearing cookie only after
\* AuthService.logout has recorded the revocation, and a logout request that
\* ended in an error (undecodable token, storage error, uniqueness violation)
\* has set no Set-Cookie header.
C4_NoPartialLogout ==
  \A c \in Reqs :
    calls[c].op = "ctlLogout" =>
      /\ calls[c].setCookie = "clear"
         => (calls[c].token \in loggedOut /\ FindFirst(tokenBlacklist, calls[c].token))
      /\ calls[c].pc = "clear"
         => (calls[c].token \in loggedOut /\ FindFirst(tokenBlacklist, calls[c].token))
      /\ (calls[c].pc = "done" /\ calls[c].outcome # "ok: Logout successful")
         => calls[c].setCookie = "none"

\* C4 witness: a logout request whose insert failed in storage ended with that
\* error and without a Set-Cookie header.
C4_Witness ==
  \E c \in Reqs :
    /\ calls[c].op = "ctlLogout" /\ calls[c].pc = "done"
    /\ calls[c].createCalled
    /\ calls[c].outcome = "StorageError"
    /\ calls[c].setCookie = "none"
    /\ ~FindFirst(tokenBlacklist, calls[c].token)

\* C5: a logout of a token that decodes to null or to a non-object fails with
\* BadRequest 'Invalid token', never issues the insert and leaves no row.
C5_UndecodableRejected ==
  \A c \in Reqs :
    (IsLogout(c) /\ ~Falsy(calls[c].token) /\ Decode(calls[c].token).type # "object")
    => /\ calls[c].pc = "done"
       /\ calls[c].outcome = "BadRequest: Invalid token"
       /\ ~calls[c].createCalled
       /\ RowsOf(tokenBlacklist, calls[c].token) = {}

\* C5 witness: logouts of a string that is no JWS and of a JWS whose payload
\* is no JSON were both refused.
C5_Witness ==
  \E c, d \in Reqs :
    /\ calls[c].op = "svcLogout" /\ calls[c].token = Garbage
    /\ calls[c].outcome = "BadRequest: Invalid token"
    /\ calls[d].op = "svcLogout" /\ calls[d].token = TextPayload
    /\ calls[d].outcome = "BadRequest: Invalid token"

\* C6: a logout of a token whose payload is an object without a numeric exp
\* ends with BadRequest 'Invalid token', without having issued an insert.
C6_MissingExpRejected ==
  \A c \in Reqs :
    (IsLogout(c) /\ ~Falsy(calls[c].token) /\ ~Decode(calls[c].token).hasExp)
    => (calls[c].pc = "done"
          => /\ calls[c].outcome = "BadRequest: Invalid token"
             /\ ~calls[c].createCalled)

\* C7: a logout whose insert is answered while the token already has a row
\* ends in an error that reaches the caller (no clearing cookie), and the
\* answer leaves the revocation table as it was, with one row for the token.
C7_DoubleLogoutFails ==
  [][\A c \in Reqs :
       (/\ calls[c].pc = "create"
        /\ FindFirst(tokenBlacklist, calls[c].token)
        /\ calls'[c] # calls[c])
       => /\ calls'[c].pc = "done"
          /\ calls'[c].outcome \in {"P2002", "StorageError"}
          /\ calls'[c].setCookie = "none"
          /\ tokenBlacklist' = tokenBlacklist
          /\ Cardinality(RowsOf(tokenBlacklist', calls[c].token)) = 1
    ]_vars

\* C7 witness: a logout of an already revoked token failed on the unique
\* index while no other logout was around, and the token still has one row.
C7_Witness ==
  \E c \in Reqs :
    /\ calls[c].op = "svcLogout" /\ calls[c].pc = "done"
    /\ calls[c].outcome = "P2002"
    /\ \A d \in Reqs \ {c} : ~IsLogout(d)
    /\ Cardinality(RowsOf(tokenBlacklist, calls[c].token)) = 1

\* The token of a row had expired when the row was written
WrittenAfterExpiry(row) == row.createdAt >= row.expiresAt.ms

\* C8 as stated: a row exists for a token if and only if the token was logged
\* out, and it was logged out before its expiry: no row was written when the
\* token had already expired.
C8_RecordIffLoggedOutBeforeExpiry ==
  /\ \A i \in 1..Len(tokenBlacklist) :
       /\ tokenBlacklist[i].token \in loggedOut
       /\ ~WrittenAfterExpiry(tokenBlacklist[i])
  /\ \A t \in loggedOut : RowsOf(tokenBlacklist, t) # {}

\* C8 amended: a row exists for a token if and only if AuthService.logout
\* resolved for that token, expired by then or not: every row is of a
\* logged-out token and carries that token's own expiry, every logged-out
\* token has exactly one row, and a logout in flight that has not resolved
\* has written no row of its own.
C8_RecordIffLoggedOut ==
  /\ \A i \in 1..Len(tokenBlacklist) :
       /\ tokenBlacklist[i].token \in loggedOut
       /\ tokenBlacklist[i].expiresAt = DateOf(tokenBlacklist[i].token.exp * MsPerSec)
  /\ \A t \in loggedOut : Cardinality(RowsOf(tokenBlacklist, t)) = 1
  /\ Cardinality(loggedOut) = Len(tokenBlacklist)
  /\ \A t \in issued \ loggedOut : RowsOf(tokenBlacklist, t) = {}

\* C8 witness: the table holds a row written before its token's expiry and a
\* row written when its token had expired, both of logged-out tokens.
C8_Witness ==
  \E i, j \in 1..Len(tokenBlacklist) :
    /\ ~WrittenAfterExpiry(tokenBlacklist[i])
    /\ WrittenAfterExpiry(tokenBlacklist[j])
    /\ tokenBlacklist[i].token \in loggedOut
    /\ tokenBlacklist[j].token \in loggedOut

\* What the strategy decides for a cookie at time t against a table: the
\* cookie is present, verifies, and has no row
StrategyAccepts(cookie, t, table) ==
  /\ ~Falsy(JwtFromRequest(cookie))
  /\ VerifyToken(JwtFromRequest(cookie), t)
  /\ ~FindFirst(table, cookie)

\* The table without the rows whose expiresAt has passed at time t
Purged(table, t) ==
  LET Live(row) == row.expiresAt.ms > t
  IN SelectSeq(table, Live)

\* C9: at every time and for every cookie, the strategy decides the same with
\* the rows past expiresAt as without them: a token whose row is past
\* expiresAt fails the expiry check of the verification.
C9_PurgeIsInvisible ==
  /\ \A k \in Cookies :
       StrategyAccepts(k, now, tokenBlacklist)
         = StrategyAccepts(k, now, Purged(tokenBlacklist, now))
  /\ \A i \in 1..Len(tokenBlacklist) :
       tokenBlacklist[i].expiresAt.ms <= now
         => ~VerifyToken(tokenBlacklist[i].token, now)

\* C9 witness: the strategy has rejected, on its expiry, a server-signed token
\* whose row is past expiresAt, so that purging the row changes the table.
C9_Witness ==
  \E c \in Reqs :
    /\ calls[c].op = "authenticate" /\ calls[c].pc = "done"
    /\ calls[c].outcome = "Unauthorized: jwt verification"
    /\ calls[c].token \in issued
    /\ FindFirst(tokenBlacklist, calls[c].token)
    /\ Purged(tokenBlacklist, now) # tokenBlacklist
    /\ ~FindFirst(Purged(tokenBlacklist, now), calls[c].token)

\* C10: JwtStrategy.validate called for a request without Authentication
\* cookie throws Unauthorized at once, and findFirst is not issued.
C10_NoCookieNoLookup ==
  \A c \in Reqs :
    (calls[c].op = "validate" /\ Falsy(calls[c].token))
    => /\ calls[c].pc = "done"
       /\ calls[c].outcome = "Unauthorized: No authentication cookie found"
       /\ ~calls[c].queried

\* C10 witness: validate has rejected a request without the cookie.
C10_Witness ==
  \E c \in Reqs :
    /\ calls[c].op = "validate" /\ calls[c].token = NoCookie
    /\ calls[c].pc = "done"
    /\ calls[c].outcome = "Unauthorized: No authentication cookie found"

\* C11: AuthController.logout on a request without Authentication cookie
\* throws Unauthorized 'No authentication cookie found' at once: it does not
\* call AuthService.logout (no insert is issued, no row is written for the
\* request) and sets no Set-Cookie header.
C11_NoCookieLogoutRejected ==
  \A c \in Reqs :
    (calls[c].op = "ctlLogout" /\ Falsy(calls[c].token))
    => /\ calls[c].pc = "done"
       /\ calls[c].outcome = "Unauthorized: No authentication cookie found"
       /\ ~calls[c].createCalled
       /\ calls[c].setCookie = "none"
       /\ RowsOf(tokenBlacklist, calls[c].token) = {}

\* C11 witness: AuthController.logout has rejected a request without cookie
\* and one whose cookie is the empty string.
C11_Witness ==
  \E c, d \in Reqs :
    /\ calls[c].op = "ctlLogout" /\ calls[c].token = NoCookie
    /\ calls[c].outcome = "Unauthorized: No authentication cookie found"
    /\ calls[d].op = "ctlLogout" /\ calls[d].token = EmptyCookie
    /\ calls[d].outcome = "Unauthorized: No authentication cookie found"

\* C13: the Set-Cookie header changes in two ways only: login sets the token
\* cookie and logout sets the clearing cookie.  The clearing cookie is set by
\* a step that finds the row of the request's token already written, and in
\* every state where a request carries the clearing cookie its token has a
\* row.
C13_CookieLifecycle ==
  [][\A c \in Reqs :
       /\ (calls'[c].setCookie = "token" /\ calls[c].setCookie # "token")
          => (calls'[c].op = "login" /\ calls'[c].token \in issued')
       /\ (calls'[c].setCookie = "clear" /\ calls[c].setCookie # "clear")
          => /\ calls[c].op = "ctlLogout" /\ calls'[c].op = "ctlLogout"
             /\ calls'[c].token = calls[c].token
             /\ FindFirst(tokenBlacklist, calls[c].token)
       /\ calls'[c].setCookie = "clear"
          => FindFirst(tokenBlacklist', calls'[c].token)
       /\ calls'[c].setCookie \in {"none", "token", "clear"}
    ]_vars

\* C13 witness: one request was answered by login with the token cookie, and
\* a logout request that passed the guard was answered with the clearing
\* cookie while its token has its row.
C13_Witness ==
  \E c, d \in Reqs :
    /\ calls[c].op = "login" /\ calls[c].setCookie = "token"
    /\ calls[d].op = "ctlLogout" /\ calls[d].route = "logout"
    /\ calls[d].pc = "done" /\ calls[d].setCookie = "clear"
    /\ FindFirst(tokenBlacklist, calls[d].token)

\* C16: a login changes nothing but the caller's answer: the revocation
\* table, the User table and the job queue are as before, and the token it
\* issues is stored nowhere, so a token that was issued and not logged out
\* never has a row.
C16_LoginHasNoSideEffect ==
  [][/\ \A c \in Reqs :
          (calls[c].pc = "idle" /\ calls'[c].op = "login")
          => /\ tokenBlacklist' = tokenBlacklist
             /\ users' = users
             /\ jobs' = jobs
             /\ loggedOut' = loggedOut
             /\ \A d \in Reqs \ {c} : calls'[d] = calls[d]
             /\ calls'[c].token \in issued'
     /\ \A t \in issued' \ loggedOut' : ~FindFirst(tokenBlacklist', t)
    ]_vars

\* C16 witness: a login was answered while the revocation table holds a row,
\* and the token it issued has none.
C16_Witness ==
  \E c \in Reqs :
    /\ calls[c].op = "login" /\ calls[c].pc = "done"
    /\ calls[c].token \in issued
    /\ Len(tokenBlacklist) > 0
    /\ ~FindFirst(tokenBlacklist, calls[c].token)

\* C17: a step in which AuthService.logout resolves for a token whose payload
\* has a numeric exp adds exactly one row to the revocation table: its key is
\* the raw token string and its expiresAt is exp * 1000 milliseconds; the rows
\* already there are untouched.
C17_LogoutStoresOneRecord ==
  [][\A c \in Reqs :
       (/\ calls[c].pc = "create"
        /\ Decode(calls[c].token).hasExp
        /\ \/ calls'[c].pc = "clear"
           \/ calls'[c].pc = "done" /\ calls'[c].outcome = "ok")
       => /\ Len(tokenBlacklist') = Len(tokenBlacklist) + 1
          /\ SubSeq(tokenBlacklist', 1, Len(tokenBlacklist)) = tokenBlacklist
          /\ tokenBlacklist'[Len(tokenBlacklist')].token = calls[c].token
          /\ tokenBlacklist'[Len(tokenBlacklist')].expiresAt
               = [valid |-> TRUE, ms |-> Decode(calls[c].token).exp * 1000]
          /\ Cardinality(RowsOf(tokenBlacklist', calls[c].token)) = 1
    ]_vars

\* C17 witness: logouts of a server-signed token and of a token signed by
\* someone else both resolved, and each has its row with exp * 1000.
C17_Witness ==
  \E c, d \in Reqs :
    /\ calls[c].op = "svcLogout" /\ calls[c].outcome = "ok"
    /\ calls[c].token.kind = "jwt"
    /\ calls[d].op = "svcLogout" /\ calls[d].outcome = "ok"
    /\ calls[d].token = Forged
    /\ \E i, j \in 1..Len(tokenBlacklist) :
         /\ tokenBlacklist[i].token = calls[c].token
         /\ tokenBlacklist[i].expiresAt.ms = calls[c].token.exp * 1000
         /\ tokenBlacklist[j].token = Forged
         /\ tokenBlacklist[j].expiresAt.ms = 1000

\* C18: a logout request that carries an Authentication cookie and whose
\* AuthService.logout failed ends with Unauthorized 'Logout failed' and
\* without a Set-Cookie header.
C18_LogoutFailureIsUnauthorized ==
  \A c \in Reqs :
    (/\ calls[c].op = "ctlLogout" /\ ~Falsy(calls[c].token)
     /\ calls[c].pc = "done" /\ calls[c].outcome # "ok: Logout successful")
    => /\ calls[c].outcome = "Unauthorized: Logout failed"
       /\ calls[c].setCookie = "none"

\* The parts of a cookie string other than name=value and Max-Age
Attributes(cookie) == SubSeq(cookie, 2, Len(cookie) - 1)
\* The value of the attribute with that name, in a set: empty when absent
AttributeOf(cookie, name) ==
  {cookie[i] : i \in {j \in 2..Len(cookie) : cookie[j][1] = name}}
MaxAge(cookie) == cookie[Len(cookie)][2]

\* C14: under every configuration the clearing cookie has the attributes of
\* the token cookie, in the same order: HttpOnly, Path=/, SameSite=Strict and
\* Secure are in both, Domain is in both with the configured value or in
\* neither; the clearing cookie differs in its empty value and Max-Age=0.
C14_AttributeParity ==
  \A c, d \in Reqs :
    (calls[c].op = "getTokenCookie" /\ calls[d].op = "getClearAuthCookie")
    => LET set == calls[c].cookie
           clear == calls[d].cookie
       IN /\ Attributes(clear) = Attributes(set)
          /\ \A name \in {"HttpOnly", "Path", "SameSite", "Secure", "Domain"} :
               AttributeOf(clear, name) = AttributeOf(set, name)
          /\ AttributeOf(clear, "HttpOnly") = {<<"HttpOnly">>}
          /\ AttributeOf(clear, "Path") = {<<"Path", "/">>}
          /\ AttributeOf(clear, "SameSite") = {<<"SameSite", "Strict">>}
          /\ AttributeOf(clear, "Secure") = {<<"Secure">>}
          /\ AttributeOf(clear, "Domain") =
               IF config.cookieDomain = <<"example.com">>
               THEN {<<"Domain", <<"example.com">>>>} ELSE {}
          /\ clear[1] = <<"Authentication", EmptyCookie>>
          /\ set[1] = <<"Authentication", calls[c].token>>
          /\ MaxAge(clear) = Num(0)

\* C14 witness: with a cookie domain configured, a token cookie and a
\* clearing cookie were built and both carry Domain.
C14_Witness ==
  \E c, d \in Reqs :
    /\ calls[c].op = "getTokenCookie" /\ calls[d].op = "getClearAuthCookie"
    /\ config.cookieDomain = <<"example.com">>
    /\ AttributeOf(calls[c].cookie, "Domain") # {}
    /\ AttributeOf(calls[d].cookie, "Domain") # {}

\* Without a cookie domain, both cookies were built and neither carries Domain
C14_WitnessNoDomain ==
  \E c, d \in Reqs :
    /\ calls[c].op = "getTokenCookie" /\ calls[d].op = "getClearAuthCookie"
    /\ config.cookieDomain = Undefined
    /\ AttributeOf(calls[c].cookie, "Domain") = {}
    /\ AttributeOf(calls[d].cookie, "Domain") = {}

\* The duration in seconds that the configured string stands for: <n>d is
\* n * 86400, <n>h is n * 3600, <n>m is n * 60, <n>s is n, and a string with
\* another suffix is one day
DurationSeconds(str) ==
  CASE str = <<"1", "d">> -> 86400
    [] str = <<"2", "d">> -> 172800
    [] str = <<"7", "h">> -> 25200
    [] str = <<"3", "0", "m">> -> 1800
    [] str = <<"6", "0", "m">> -> 3600
    [] str = <<"4", "5", "s">> -> 45
    [] str = <<"x", "y", "z">> -> 86400
    [] str = <<"1", "w">> -> 86400
    [] str = <<"9", "0">> -> 86400

\* The strings of the form <n><unit>, and those with an unrecognized suffix
PlainDurations ==
  {<<"1", "d">>, <<"2", "d">>, <<"7", "h">>, <<"3", "0", "m">>, <<"6", "0", "m">>,
   <<"4", "5", "s">>, <<"x", "y", "z">>, <<"1", "w">>, <<"9", "0">>}

C19_WitnessNull ==
  \E c, d \in Reqs :
    /\ calls[c].op = "validateUser" /\ calls[c].pc = "done"
    /\ calls[c].compared /\ calls[c].result = NoUser
    /\ calls[d].op = "validateUser" /\ calls[d].pc = "done"
    /\ calls[d].user = NoUser /\ ~calls[d].compared /\ calls[d].result = NoUser

C20_WitnessNoUsername ==
  \E c \in Reqs :
    /\ calls[c].op = "register" /\ calls[c].args[3] = Null
    /\ calls[c].outcome = "BadRequest: Email already in use"
    /\ calls[c].found = {"email"}

C12_WitnessDeleted ==
  \E c \in Reqs :
    /\ calls[c].op = "authenticate" /\ calls[c].pc = "done" /\ Accepted(c)
    /\ calls[c].token \in issued
    /\ ~users[calls[c].token.sub].present
    /\ calls[c].userId = calls[c].token.sub
    /\ calls[c].username = calls[c].token.username

\* The jobs in the queue that carry this email
JobsFor(email) == {j \in 1..Len(jobs) : jobs[j].email = email}

UniqueUsers(table) ==
  \A i, j \in UserIds(table) :
    i # j => /\ table[i].email # table[j].email
             /\ table[i].username = Null \/ table[i].username # table[j].username

\* The register call in this slot has had its user created
Created(call) ==
  call.op = "register" /\ (call.pc = "addJob" \/ (call.pc = "done" /\ call.outcome = "ok"))

\* Two register calls ask for the same email or the same username
Clash(a, b) ==
  a.args[1] = b.args[1] \/ (a.args[3] # Null /\ a.args[3] = b.args[3])

CreatedBy(call) ==
  IF call.op = "register" /\ call.user # NoUser
  THEN {i \in UserIds(users) : i = call.user.id /\ users[i].email = call.args[1]}
  ELSE {}

C28_AllOrNothingBeforeEnqueue ==
  \A c \in Reqs :
    (calls[c].op = "register" /\ calls[c].pc = "done")
      => IF calls[c].outcome = "ok"
         THEN CreatedBy(calls[c]) # {} /\ JobsFor(calls[c].args[1]) # {}
         ELSE calls[c].outcome # "QueueError" => CreatedBy(calls[c]) = {}

C25_LateLogoutStopsAtGuard ==
  \A c \in Reqs :
    /\ calls[c].startedRevoked
         => /\ calls[c].op = "authenticate"
            /\ ~calls[c].createCalled
            /\ calls[c].pc \in {"findFirst", "done"}
            /\ calls[c].pc = "done"
                 => calls[c].outcome \in {"Unauthorized", "Unauthorized: jwt verification"}
    /\ (calls[c].route = "logout" /\ calls[c].outcome = "P2002")
         => /\ ~calls[c].startedRevoked
            /\ calls[c].token \in loggedOut

\* C25 witness: a logout request that arrived with a revoked token has been
\* rejected by the validator's lookup, and a logout request that overlapped
\* another of the same token has met the unique index.
C25_Witness ==
  /\ \E c \in Reqs :
       /\ calls[c].startedRevoked /\ calls[c].queried
       /\ calls[c].pc = "done" /\ calls[c].outcome = "Unauthorized"
  /\ \E d \in Reqs :
       calls[d].route = "logout" /\ calls[d].outcome = "P2002"

GoodCredentials(call, table, i) ==
  /\ i \in UserIds(table)
  /\ table[i].email = call.args[1] \/ table[i].username = call.args[1]
  /\ ~table[i].disabled
  /\ Compare(call.args[2], table[i].password)

C23_MaxAgeIsTokenLifetime ==
  \A c \in Reqs :
    /\ calls[c].op = "getTokenCookie"
         => ~MaxAge(calls[c].cookie).nan /\ MaxAge(calls[c].cookie).n >= 0
    /\ (calls[c].op = "login" /\ calls[c].outcome = "ok")
         => MaxAge(calls[c].cookie) = Num(calls[c].token.exp - calls[c].token.iat)

\* C23, the strings on which cookie and token agree: a whole number that is
\* not negative followed by d, h, m or s, both readings of the clock in the
\* same millisecond.
C23_AgreesOnPlainUnits ==
  \A c \in Reqs :
    (/\ calls[c].op = "login" /\ calls[c].outcome = "ok"
     /\ calls[c].clock[1] = calls[c].clock[2]
     /\ config.expiresIn \in {<<"1", "d">>, <<"2", "d">>, <<"7", "h">>,
                               <<"3", "0", "m">>, <<"6", "0", "m">>, <<"4", "5", "s">>})
      => MaxAge(calls[c].cookie) = Num(calls[c].token.exp - calls[c].token.iat)

\* C23: with "1w" configured login has set a cookie of one day for a token of
\* one week.
C23_CookieShorterThanToken ==
  \E c \in Reqs :
    /\ config.expiresIn = <<"1", "w">>
    /\ calls[c].op = "login" /\ calls[c].outcome = "ok"
    /\ calls[c].token.exp - calls[c].token.iat = 604800
    /\ MaxAge(calls[c].cookie) = Num(86400)

\* C26: the step in which a logout of token A succeeds appends one record,
\* for A, the only one for A, and changes nothing else: the clock, the
\* tokens issued, the users, the queue, the cache and the other calls stay as
\* they are, and for every other cookie B, other tokens of the same user
\* included, the validator decides after the step as before it.  No other
\* step changes the table.
C26_LogoutChangesOnlyItsToken ==
  [][(tokenBlacklist' # tokenBlacklist \/ loggedOut' # loggedOut)
       => \E c \in Reqs :
            /\ calls[c].pc = "create"
            /\ LogoutResolved(c)'
            /\ tokenBlacklist' = Append(tokenBlacklist,
                                        Row(calls[c].token, calls[c].expiresAt, now))
            /\ RowsOf(tokenBlacklist', calls[c].token) = {Len(tokenBlacklist')}
            /\ loggedOut' = loggedOut \cup {calls[c].token}
            /\ UNCHANGED <<now, issued, users, jobs, config, cache>>
            /\ \A d \in Reqs \ {c} : calls'[d] = calls[d]
            /\ \A B \in Cookies \ {calls[c].token} :
                 StrategyAccepts(B, now, tokenBlacklist')
                   <=> StrategyAccepts(B, now, tokenBlacklist)
    ]_vars

\* C26 witness: a token of a user has been logged out, its record is the only
\* one, and another token of the same user is accepted as before.
C26_Witness ==
  \E A \in loggedOut \cap issued : \E B \in issued :
    /\ B # A /\ B.sub = A.sub
    /\ Len(tokenBlacklist) = 1 /\ tokenBlacklist[1].token = A
    /\ StrategyAccepts(B, now, tokenBlacklist)
    /\ StrategyAccepts(B, now, <<>>)
    /\ ~FindFirst(tokenBlacklist, B)

\* C29: in the metadata paginate returns, hasPrevPage is true exactly when
\* page > 0 and hasNextPage is true exactly when page + 1 < totalPages, with
\* page = floor(skip / take) and totalPages = ceil(total / take).
C29_MetadataConsistent ==
  \A c \in Reqs :
    (calls[c].op = "paginate" /\ calls[c].pc = "done")
      => LET m == calls[c].result
         IN /\ m.page = calls[c].args[1] \div calls[c].args[2]
            /\ m.totalPages = CeilDiv(m.total, calls[c].args[2])
            /\ m.hasPrevPage <=> m.page > 0
            /\ m.hasNextPage <=> m.page + 1 < m.totalPages

\* C29, where it holds: the metadata is consistent when skip is a multiple
\* of take.
C29_ConsistentWhenAligned ==
  \A c \in Reqs :
    (/\ calls[c].op = "paginate" /\ calls[c].pc = "done"
     /\ calls[c].args[1] % calls[c].args[2] = 0)
      => LET m == calls[c].result
         IN /\ m.hasPrevPage <=> m.page > 0
            /\ m.hasNextPage <=> m.page + 1 < m.totalPages

\* C29: skip 1, take 2, total 3 has been answered with page 0 of 2 pages,
\* a previous page and no next page.
C29_PageZeroWithPrevious ==
  \E c \in Reqs :
    /\ calls[c].op = "paginate" /\ calls[c].pc = "done"
    /\ calls[c].args = <<1, 2>>
    /\ calls[c].result.total = 3
    /\ calls[c].result.page = 0 /\ calls[c].result.totalPages = 2
    /\ calls[c].result.hasPrevPage /\ ~calls[c].result.hasNextPage

====
